---------------------------- MODULE Spec2Model ----------------------------
(***************************************************************************)
(* Model of the worker-blip serverless caption handler (src/src/handler.py).*)
(*                                                                         *)
(* Python strings are TLA+ strings (TLC evaluates Len, \o, SubSeq on them);*)
(* Python dicts are functions whose DOMAIN is the set of keys present;     *)
(* Python lists are sequences.  A value whose Python type matters to the   *)
(* code (the elements of `tags`) is wrapped as [kind, v].                  *)
(***************************************************************************)
EXTENDS Integers, Sequences, FiniteSets, TLC

(***************************************************************************)
(* Bounds of the model.                                                    *)
(***************************************************************************)
MaxWords == 3        \* words per caption handed to the post-processor
MaxUrls == 2         \* length of a data_urls list

(***************************************************************************)
(* Python str primitives, computed on the characters.                      *)
(***************************************************************************)
LowerChar(c) ==
    CASE c = "A" -> "a" [] c = "B" -> "b" [] c = "C" -> "c" [] c = "D" -> "d"
      [] c = "E" -> "e" [] c = "F" -> "f" [] c = "G" -> "g" [] c = "H" -> "h"
      [] c = "I" -> "i" [] c = "J" -> "j" [] c = "K" -> "k" [] c = "L" -> "l"
      [] c = "M" -> "m" [] c = "N" -> "n" [] c = "O" -> "o" [] c = "P" -> "p"
      [] c = "Q" -> "q" [] c = "R" -> "r" [] c = "S" -> "s" [] c = "T" -> "t"
      [] c = "U" -> "u" [] c = "V" -> "v" [] c = "W" -> "w" [] c = "X" -> "x"
      [] c = "Y" -> "y" [] c = "Z" -> "z" [] OTHER -> c

RECURSIVE Lower(_)
\* str.lower()
Lower(s) ==
    IF Len(s) = 0 THEN ""
    ELSE LowerChar(SubSeq(s, 1, 1)) \o Lower(SubSeq(s, 2, Len(s)))

\* s[:i] and s[i:] with 0-based i, as Python slices (clamped to the string)
Prefix(s, i) == SubSeq(s, 1, IF i > Len(s) THEN Len(s) ELSE i)
Suffix(s, i) == IF i >= Len(s) THEN "" ELSE SubSeq(s, i + 1, Len(s))

\* the 0-based positions at which t occurs in s
Occurrences(s, t) ==
    {i \in 0..(Len(s) - Len(t)) : SubSeq(s, i + 1, i + Len(t)) = t}

\* str.find(t): the lowest position, or -1
Find(s, t) ==
    IF Occurrences(s, t) = {} THEN -1
    ELSE CHOOSE i \in Occurrences(s, t) : \A j \in Occurrences(s, t) : i <= j

\* t in s
Contains(s, t) == Find(s, t) # -1

\* s.startswith(p)
StartsWith(s, p) == Len(s) >= Len(p) /\ SubSeq(s, 1, Len(p)) = p

RECURSIVE ReplaceEvery(_, _, _)
\* str.replace(old, new) with no count: every occurrence, left to right
ReplaceEvery(s, old, new) ==
    IF Find(s, old) = -1 \/ Len(old) = 0 THEN s
    ELSE Prefix(s, Find(s, old)) \o new
         \o ReplaceEvery(Suffix(s, Find(s, old) + Len(old)), old, new)

\* str.replace(old, new, 1): the first occurrence only
ReplaceFirst(s, old, new) ==
    IF Find(s, old) = -1 THEN s
    ELSE Prefix(s, Find(s, old)) \o new \o Suffix(s, Find(s, old) + Len(old))

(***************************************************************************)
(* Python values of the tags list.                                         *)
(***************************************************************************)
PyDict(d) == [kind |-> "dict", v |-> d]
PyList(l) == [kind |-> "list", v |-> l]

\* the outcome of a call: a returned value or a raised exception (its str())
Ret(x) == [raised |-> FALSE, value |-> x]
Raise(msg) == [raised |-> TRUE, value |-> msg]

KeyErrorName == "'name'"
AttributeErrorGet == "'list' object has no attribute 'get'"

\* tag.get(key, default) on a dict
Get(tag, key, default) == IF key \in DOMAIN tag.v THEN tag.v[key] ELSE default

\* RoleIn with the membership test widened to a substring test: the role
\* holds one of roles
RoleHolds(tag, roles) ==
    "role" \in DOMAIN tag.v /\ \E r \in roles : Contains(tag.v["role"], r)

\* tag.get('role') in roles  (None is in no list)
RoleIn(tag, roles) == "role" \in DOMAIN tag.v /\ tag.v["role"] \in roles

RECURSIVE JoinComma(_)
\* ', '.join(l)
JoinComma(l) ==
    IF Len(l) = 0 THEN ""
    ELSE IF Len(l) = 1 THEN l[1]
    ELSE l[1] \o ", " \o JoinComma(Tail(l))


(***************************************************************************)
(* create_personalized_prompt  (handler.py 92-129)                         *)
(***************************************************************************)
\* f"{name} ({role})" or name, for one tag with a name
PersonOf(tag) ==
    IF Get(tag, "role", "") # ""
    THEN Get(tag, "name", "") \o " (" \o Get(tag, "role", "") \o ")"
    ELSE Get(tag, "name", "")

RECURSIVE PeopleOf(_)
\* the list `people`: one entry per tag whose name is non-empty
PeopleOf(tags) ==
    IF Len(tags) = 0 THEN <<>>
    ELSE IF Get(Head(tags), "name", "") # ""
    THEN <<PersonOf(Head(tags))>> \o PeopleOf(Tail(tags))
    ELSE PeopleOf(Tail(tags))

create_personalized_prompt(base_prompt, tags) ==
    IF Len(tags) = 0 THEN Ret(base_prompt)
    ELSE IF \E i \in 1..Len(tags) : tags[i].kind # "dict"
    THEN Raise(AttributeErrorGet)
    ELSE IF PeopleOf(tags) = <<>> THEN Ret(base_prompt)
    ELSE Ret("detailed photo of " \o JoinComma(PeopleOf(tags)))

(***************************************************************************)
(* post_process_caption_with_tags  (handler.py 131-179)                    *)
(***************************************************************************)
RECURSIVE NamesOf(_)
\* names = [tag.get('name', '') for tag in tags if tag.get('name')]
NamesOf(tags) ==
    IF Len(tags) = 0 THEN <<>>
    ELSE IF Get(Head(tags), "name", "") # ""
    THEN <<Get(Head(tags), "name", "")>> \o NamesOf(Tail(tags))
    ELSE NamesOf(Tail(tags))

ManRoles == {"father", "dad", "papa", "man"}
WomanRoles == {"mother", "mom", "mama", "woman"}
BoyRoles == {"son", "boy", "child"}
GirlRoles == {"daughter", "girl", "child"}

\* the position in tags of the first tag whose role is one of roles, or 0
FirstRoleTag(tags, roles) ==
    IF \E i \in 1..Len(tags) : RoleIn(tags[i], roles)
    THEN CHOOSE i \in 1..Len(tags) :
            /\ RoleIn(tags[i], roles)
            /\ \A j \in 1..(i - 1) : ~RoleIn(tags[j], roles)
    ELSE 0

\* next((tag['name'] for tag in tags if tag.get('role') in roles), default)
RoleName(tags, roles, default) ==
    IF FirstRoleTag(tags, roles) = 0 THEN Ret(default)
    ELSE IF "name" \in DOMAIN tags[FirstRoleTag(tags, roles)].v
    THEN Ret(tags[FirstRoleTag(tags, roles)].v["name"])
    ELSE Raise(KeyErrorName)

\* the value of the 'they' entry
TheyName(names) ==
    IF Len(names) = 1 THEN names[1]
    ELSE IF Len(names) = 2 THEN names[1] \o " and " \o names[2]
    ELSE JoinComma(SubSeq(names, 1, Len(names) - 1)) \o " and " \o names[Len(names)]

\* the dict `replacements`, in insertion order: <<generic term, call outcome>>
replacements(tags, names) ==
    << <<"a person", Ret(names[1])>>,
       <<"a man", RoleName(tags, ManRoles, names[1])>>,
       <<"a woman", RoleName(tags, WomanRoles, names[1])>>,
       <<"a boy", RoleName(tags, BoyRoles, names[1])>>,
       <<"a girl", RoleName(tags, GirlRoles, names[1])>>,
       <<"a child", Ret(names[1])>>,
       <<"someone", Ret(names[1])>>,
       <<"they", Ret(TheyName(names))>> >>

GenericTerms == {"a person", "a man", "a woman", "a boy", "a girl", "a child",
                 "someone", "they"}

\* the first entry of reps whose generic term occurs in caption_lower, or 0
FirstGeneric(reps, caption_lower) ==
    IF \E i \in 1..Len(reps) : Contains(caption_lower, reps[i][1])
    THEN CHOOSE i \in 1..Len(reps) :
            /\ Contains(caption_lower, reps[i][1])
            /\ \A j \in 1..(i - 1) : ~Contains(caption_lower, reps[j][1])
    ELSE 0

\* the for loop over replacements.items(), with its break  (163-169)
substitute_generic(caption, reps) ==
    IF FirstGeneric(reps, Lower(caption)) = 0 THEN caption
    ELSE LET term == reps[FirstGeneric(reps, Lower(caption))][1]
             name == reps[FirstGeneric(reps, Lower(caption))][2].value
             idx == Find(Lower(caption), term)
         IN  Prefix(caption, idx) \o name \o Suffix(caption, idx + Len(term))

Affectionate == {"little", "sweet", "cute", "lovely"}

\* the first of names that occurs in s, or ""
FirstNameIn(names, s) ==
    IF \E i \in 1..Len(names) : Contains(s, names[i])
    THEN names[CHOOSE i \in 1..Len(names) :
                  /\ Contains(s, names[i])
                  /\ \A j \in 1..(i - 1) : ~Contains(s, names[j])]
    ELSE ""

\* the children's-book touch-up  (171-177)
add_little(processed, names) ==
    IF processed # ""
       /\ ~(\E phrase \in Affectionate : Contains(Lower(processed), phrase))
       /\ FirstNameIn(names, processed) # ""
    THEN ReplaceFirst(processed, FirstNameIn(names, processed),
                      "little " \o FirstNameIn(names, processed))
    ELSE processed

\* post_process_caption_with_tags without its two early returns for an empty
\* tags list and an empty names list: names[0] is then read from an empty list
post_process_unguarded(caption, tags) ==
    IF caption = "" THEN Ret(caption)
    ELSE IF \E i \in 1..Len(tags) : tags[i].kind # "dict"
    THEN Raise(AttributeErrorGet)
    ELSE IF NamesOf(tags) = <<>> THEN Raise("list index out of range")
    ELSE LET names == NamesOf(tags)
             names_in_caption ==
                 \E i \in 1..Len(names) : Contains(Lower(caption), Lower(names[i]))
             reps == replacements(tags, names)
         IN  IF names_in_caption THEN Ret(add_little(caption, names))
             ELSE IF \E i \in 1..Len(reps) : reps[i][2].raised
             THEN Raise(KeyErrorName)
             ELSE Ret(add_little(substitute_generic(caption, reps), names))

post_process_caption_with_tags(caption, tags) ==
    IF Len(tags) = 0 \/ caption = "" THEN Ret(caption)
    ELSE IF \E i \in 1..Len(tags) : tags[i].kind # "dict"
    THEN Raise(AttributeErrorGet)
    ELSE IF NamesOf(tags) = <<>> THEN Ret(caption)
    ELSE LET names == NamesOf(tags)
             names_in_caption ==
                 \E i \in 1..Len(names) : Contains(Lower(caption), Lower(names[i]))
             reps == replacements(tags, names)
         IN  IF names_in_caption THEN Ret(add_little(caption, names))
             ELSE IF \E i \in 1..Len(reps) : reps[i][2].raised
             THEN Raise(KeyErrorName)
             ELSE Ret(add_little(substitute_generic(caption, reps), names))

(***************************************************************************)
(* Job inputs.  Every value of a job's input dict is wrapped with its      *)
(* Python type, which rp_validator.validate inspects.                      *)
(***************************************************************************)
None == [none |-> TRUE]

PyStr(s) == [kind |-> "str", v |-> s]
PyInt(n) == [kind |-> "int", v |-> n]

EmptyDict == [k \in {} |-> PyStr("")]

Has(d, key) == key \in DOMAIN d

\* d.get(key, default)
DictGet(d, key, default) == IF key \in DOMAIN d THEN d[key] ELSE default

DataUrl == "data:image/png;base64,iVBORw0KGgo="
HttpUrl == "https://example.com/image.jpg"
FtpUrl == "ftp://example.com/image.png"

HannaTag == PyDict([name |-> "Hanna", role |-> "daughter"])
PapaTag == PyDict([name |-> "Puck", role |-> "father"])
NamelessFatherTag == PyDict([role |-> "father"])
NameOnlyTag == PyDict([name |-> "Hanna"])
GrandpaTag == PyDict([name |-> "Opa", role |-> "grandfather"])
FriendTag == PyDict([role |-> "friend"])

\* the data_url entry of a job: absent, or one of the strings
DataUrlOptions ==
    {EmptyDict} \cup {[data_url |-> PyStr(u)] : u \in {DataUrl, HttpUrl, FtpUrl, ""}}

\* the lists of at most n urls, each one well-formed or not
UrlLists(n) ==
    UNION {[1..k -> {PyStr(HttpUrl), PyStr(FtpUrl)}] : k \in 0..n}

\* the data_urls entry of a job: a list of at most MaxUrls urls
DataUrlsOptions == {[data_urls |-> PyList(l)] : l \in UrlLists(MaxUrls)}

\* the sources of a job: none, data_url alone, data_urls alone, or both
SourceOptions ==
    DataUrlOptions \cup DataUrlsOptions
    \cup {[data_url |-> PyStr(DataUrl), data_urls |-> PyList(<<PyStr(HttpUrl)>>)]}

\* the tags entry: absent, a list of tag dicts (the single-image shape), or a
\* list of per-image lists (the shape caption_image_legacy indexes)
TagsOptions ==
    {EmptyDict}
    \cup {[tags |-> PyList(l)] :
            l \in {<<HannaTag>>, <<NameOnlyTag, NamelessFatherTag>>,
                   <<PyList(<<HannaTag>>),
                     PyList(<<NameOnlyTag, NamelessFatherTag>>)>>}}

\* the tunable entries: absent, a prompt, the three numbers, or the envelope's
\* batch_size
TunableOptions ==
    {EmptyDict,
     [prompt |-> PyStr("describe")],
     [max_length |-> PyInt(120), min_length |-> PyInt(10), num_beams |-> PyInt(9)],
     [batch_size |-> PyInt(4)]}

JobInputs ==
    {src @@ t @@ o : src \in SourceOptions, t \in TagsOptions, o \in TunableOptions}

\* what model.generate may return for an image
ModelCaptions == {"a man and a girl", "hanna smiling"}

(***************************************************************************)
(* INPUT_SCHEMA  (handler.py 16-52)                                        *)
(***************************************************************************)
SchemaKeys == <<"data_url", "prompt", "tags", "max_length", "min_length", "num_beams">>

\* INPUT_SCHEMA with data_url made optional, a sample url as its default
INPUT_SCHEMA_optional_source ==
    [data_url |-> [type |-> "str", required |-> FALSE, default |-> PyStr(HttpUrl)],
     prompt |-> [type |-> "str", required |-> FALSE, default |-> PyStr("a photo of")],
     tags |-> [type |-> "list", required |-> FALSE, default |-> PyList(<<>>)],
     max_length |-> [type |-> "int", required |-> FALSE, default |-> PyInt(80)],
     min_length |-> [type |-> "int", required |-> FALSE, default |-> PyInt(15)],
     num_beams |-> [type |-> "int", required |-> FALSE, default |-> PyInt(5)]]

INPUT_SCHEMA ==
    [data_url |-> [type |-> "str", required |-> TRUE, default |-> PyStr("")],
     prompt |-> [type |-> "str", required |-> FALSE, default |-> PyStr("a photo of")],
     tags |-> [type |-> "list", required |-> FALSE, default |-> PyList(<<>>)],
     max_length |-> [type |-> "int", required |-> FALSE, default |-> PyInt(80)],
     min_length |-> [type |-> "int", required |-> FALSE, default |-> PyInt(15)],
     num_beams |-> [type |-> "int", required |-> FALSE, default |-> PyInt(5)]]

(***************************************************************************)
(* rp_validator.validate, as process_single_image calls it  (handler.py    *)
(* 222-228): unexpected keys, missing required keys and wrong types are    *)
(* errors; a missing optional key takes the schema's default.              *)
(***************************************************************************)
InputKeys == SchemaKeys \o <<"data_urls", "batch_size", "seed">>

RECURSIVE Messages(_, _, _)
\* one message per key: pre + key + post
Messages(keys, pre, post) ==
    IF Len(keys) = 0 THEN <<>>
    ELSE <<pre \o Head(keys) \o post>> \o Messages(Tail(keys), pre, post)

\* str() of a list of strings
ListRepr(l) == "[" \o JoinComma(Messages(l, "'", "'")) \o "]"

validate(raw_input, schema) ==
    LET Unexpected(k) == k \in DOMAIN raw_input /\ k \notin DOMAIN schema
        Missing(k) == /\ k \in DOMAIN schema
                      /\ schema[k].required
                      /\ k \notin DOMAIN raw_input
        WrongType(k) == /\ k \in DOMAIN schema
                        /\ k \in DOMAIN raw_input
                        /\ raw_input[k].kind # schema[k].type
        errors ==
            Messages(SelectSeq(InputKeys, Unexpected),
                     "Unexpected input. ", " is not a valid input option.")
            \o Messages(SelectSeq(InputKeys, Missing), "", " is a required input.")
            \o Messages(SelectSeq(InputKeys, WrongType), "", " has the wrong type.")
        validated_input ==
            [k \in DOMAIN raw_input \cup {x \in DOMAIN schema : ~schema[x].required} |->
                IF k \in DOMAIN raw_input THEN raw_input[k] ELSE schema[k].default]
    IN  IF errors # <<>> THEN [errors |-> errors]
        ELSE [validated_input |-> validated_input]

\* the data_url format test of line 232
valid_data_url(data_url) ==
    data_url # "" /\ (StartsWith(data_url, "data:image/") \/ StartsWith(data_url, "http"))

(***************************************************************************)
(* Collaborators.                                                          *)
(***************************************************************************)
\* the local paths rp_download.file may return: an image, a text file, or the
\* directory a zip archive was unpacked into
DownloadPaths == {"job_files/a.jpg", "job_files/b.png", "job_files/c.txt",
                  "job_files/d"}

\* str(mimetypes.guess_type(path)[0]), decided by the file extension
guess_type(path) ==
    LET n == Len(path)
    IN  IF n >= 4 /\ SubSeq(path, n - 3, n) = ".jpg" THEN "image/jpeg"
        ELSE IF n >= 4 /\ SubSeq(path, n - 3, n) = ".png" THEN "image/png"
        ELSE IF n >= 4 /\ SubSeq(path, n - 3, n) = ".txt" THEN "text/plain"
        ELSE "None"

SupportedMimeTypes == {"image/jpeg", "image/png", "image/jpg"}

(***************************************************************************)
(* State.                                                                  *)
(***************************************************************************)
VARIABLES
    pc,            \* where the handler is
    entry,         \* the handler the job was given to
    job_input,     \* job["input"] of the job in hand
    i,             \* caption_image_legacy's loop index
    captions,      \* caption_image_legacy's list
    single_input,  \* job["input"] of the call of process_single_image
    params,        \* validated['validated_input']
    input_path,    \* the downloaded file
    prompt,        \* personalized_prompt
    gen_args,      \* the dict given to model.generate
    caption,       \* the raw caption
    result,        \* what process_single_image returns
    response,      \* what the handler returned for the job
    job_files,     \* the temporary files on disk
    cuda,          \* [available, faulted]: the accelerator
    audit,         \* history: one record per call of process_single_image
    pp_pc,         \* the post-processor under test: its position,
    pp_caption,    \* its caption argument,
    pp_tags,       \* its tags argument,
    pp_out,        \* the outcome of the call,
    pp_again       \* and the outcome of a second call on the first one's output

pvars == <<pc, entry, job_input, i, captions, single_input, params, input_path,
           prompt, gen_args, caption, result, response, job_files, cuda, audit>>
ppvars == <<pp_pc, pp_caption, pp_tags, pp_out, pp_again>>
vars == <<pvars, ppvars>>

\* the history record of a call of process_single_image that has just begun
NewCall(input) ==
    [data_url |-> DictGet(input, "data_url", None), download_calls |-> 0,
     path |-> "", passed_mime |-> FALSE, generate_calls |-> 0,
     generate_failed |-> FALSE, generated |-> FALSE, pp_raised |-> FALSE,
     returned |-> FALSE, result |-> None]

\* the history record of the call in progress, with field f set to x
Noted(f, x) == [audit EXCEPT ![Len(audit)][f] = x]

PPIdle ==
    /\ pp_pc = "off"
    /\ pp_caption = ""
    /\ pp_tags = <<>>
    /\ pp_out = None
    /\ pp_again = None

PipelineIdle ==
    /\ pc = "idle"
    /\ entry = "none"
    /\ job_input = EmptyDict
    /\ i = 0
    /\ captions = <<>>
    /\ single_input = EmptyDict
    /\ params = EmptyDict
    /\ input_path = ""
    /\ prompt = ""
    /\ gen_args = None
    /\ caption = ""
    /\ result = None
    /\ response = None
    /\ job_files = {}
    /\ audit = <<>>

\* the worker after the model is loaded: no job yet, on a GPU or a CPU host
Init ==
    /\ PipelineIdle
    /\ cuda \in {[available |-> a, faulted |-> FALSE] : a \in BOOLEAN}
    /\ PPIdle

(***************************************************************************)
(* The host runtime hands a job to a handler.  process_single_image is the *)
(* registered handler (424-427); caption_image_legacy is the batch entry.  *)
(***************************************************************************)
Handlers == {"process_single_image", "caption_image_legacy"}

Receive(h, input) ==
    /\ pc = "idle"
    /\ entry' = h
    /\ job_input' = input
    /\ IF h = "process_single_image"
       THEN /\ single_input' = input
            /\ audit' = <<NewCall(input)>>
            /\ pc' = "psi_validate"
       ELSE /\ single_input' = EmptyDict
            /\ audit' = <<>>
            /\ pc' = "legacy_start"
    /\ UNCHANGED <<i, captions, params, input_path, prompt, gen_args, caption,
                   result, response, job_files, cuda, ppvars>>

\* the handler has returned: the runtime posts the response and the job's
\* locals are gone; the files on disk and the device state stay
Return ==
    /\ pc = "done"
    /\ pc' = "idle"
    /\ entry' = "none"
    /\ job_input' = EmptyDict
    /\ i' = 0
    /\ captions' = <<>>
    /\ single_input' = EmptyDict
    /\ params' = EmptyDict
    /\ input_path' = ""
    /\ prompt' = ""
    /\ gen_args' = None
    /\ caption' = ""
    /\ result' = None
    /\ response' = None
    /\ audit' = <<>>
    /\ UNCHANGED <<job_files, cuda, ppvars>>

(***************************************************************************)
(* process_single_image  (handler.py 196-348), one action per stage.  A    *)
(* `return` inside the try block sets result and passes to the finally     *)
(* block, which is PSI_Finally.                                            *)
(***************************************************************************)
Error(msg) == [error |-> msg]

\* lines 217-237: input present, schema validation, data_url format
PSI_Validate ==
    /\ pc = "psi_validate"
    /\ LET validated == validate(single_input, INPUT_SCHEMA)
       IN  IF single_input = EmptyDict
           THEN /\ result' = Error("No input provided")
                /\ pc' = "psi_finally"
                /\ params' = params
           ELSE IF Has(validated, "errors")
           THEN /\ result' = Error("Validation failed: " \o ListRepr(validated.errors))
                /\ pc' = "psi_finally"
                /\ params' = params
           ELSE IF ~valid_data_url(validated.validated_input["data_url"].v)
           THEN /\ result' = Error("Invalid data_url format. Expected: data:image/...;base64,... or http(s)://...")
                /\ pc' = "psi_finally"
                /\ params' = validated.validated_input
           ELSE /\ result' = result
                /\ pc' = "psi_download"
                /\ params' = validated.validated_input
    /\ UNCHANGED <<entry, job_input, i, captions, single_input, input_path, prompt,
                   gen_args, caption, response, job_files, cuda, audit, ppvars>>

\* lines 239-249: rp_download.file either raises or leaves a file in job_files
PSI_Download ==
    /\ pc = "psi_download"
    /\ \E outcome \in {"raise"} \cup DownloadPaths :
          IF outcome = "raise"
          THEN /\ result' = Error("Failed to download/decode image: download error")
               /\ pc' = "psi_finally"
               /\ UNCHANGED <<input_path, job_files>>
          ELSE /\ input_path' = outcome
               /\ job_files' = job_files \cup {outcome}
               /\ pc' = "psi_mime"
               /\ result' = result
    /\ audit' = [audit EXCEPT ![Len(audit)].download_calls = @ + 1,
                              ![Len(audit)].path = input_path']
    /\ UNCHANGED <<entry, job_input, i, captions, single_input, params, prompt,
                   gen_args, caption, response, cuda, ppvars>>

\* PSI_Mime with the whitelist test dropped: every downloaded file goes on
PSI_Mime_unfiltered ==
    /\ pc = "psi_mime"
    /\ result' = result
    /\ pc' = "psi_preprocess"
    /\ audit' = Noted("passed_mime", TRUE)
    /\ UNCHANGED <<entry, job_input, i, captions, single_input, params, input_path,
                   prompt, gen_args, caption, response, job_files, cuda, ppvars>>

\* lines 251-256: the mime-type whitelist
PSI_Mime ==
    /\ pc = "psi_mime"
    /\ IF guess_type(input_path) \notin SupportedMimeTypes
       THEN /\ result' = Error("Unsupported image format: " \o guess_type(input_path))
            /\ pc' = "psi_finally"
            /\ audit' = audit
       ELSE /\ result' = result
            /\ pc' = "psi_preprocess"
            /\ audit' = Noted("passed_mime", TRUE)
    /\ UNCHANGED <<entry, job_input, i, captions, single_input, params, input_path,
                   prompt, gen_args, caption, response, job_files, cuda, ppvars>>

\* lines 258-276: open and preprocess the image, move it to the device, build
\* the prompt; any exception is caught at 329
PSI_Preprocess ==
    /\ pc = "psi_preprocess"
    /\ \E image_ok \in BOOLEAN :
          LET made == create_personalized_prompt(params["prompt"].v, params["tags"].v)
          IN  IF ~image_ok
              THEN /\ result' = Error("Caption generation failed: cannot identify image file")
                   /\ pc' = "psi_finally"
                   /\ prompt' = prompt
              ELSE IF cuda.available /\ cuda.faulted
              THEN /\ result' = Error("Caption generation failed: CUDA error")
                   /\ pc' = "psi_finally"
                   /\ prompt' = prompt
              ELSE IF made.raised
              THEN /\ result' = Error("Caption generation failed: " \o made.value)
                   /\ pc' = "psi_finally"
                   /\ prompt' = prompt
              ELSE /\ result' = result
                   /\ pc' = "psi_generate"
                   /\ prompt' = made.value
    /\ UNCHANGED <<entry, job_input, i, captions, single_input, params, input_path,
                   gen_args, caption, response, job_files, cuda, audit, ppvars>>

Min(a, b) == IF a <= b THEN a ELSE b

\* the dict of lines 285-295 (the fixed decoding options are left out)
generate_args ==
    [prompt |-> prompt,
     num_beams |-> Min(params["num_beams"].v, 8),
     max_length |-> Min(params["max_length"].v, 100),
     min_length |-> params["min_length"].v]

\* PSI_Generate with a second attempt after the first call of model.generate
\* has raised
PSI_Generate_retry ==
    /\ pc = "psi_generate"
    /\ gen_args' = generate_args
    /\ \E outcome \in {"raise"} \cup ModelCaptions :
          IF outcome = "raise"
          THEN /\ result' = IF audit[Len(audit)].generate_calls = 0 THEN result
                            ELSE Error("Caption generation failed: CUDA out of memory")
               /\ pc' = IF audit[Len(audit)].generate_calls = 0 THEN "psi_generate"
                        ELSE "psi_finally"
               /\ caption' = caption
               /\ audit' = [audit EXCEPT
                              ![Len(audit)].generate_calls = @ + 1,
                              ![Len(audit)].generate_failed = TRUE]
          ELSE /\ result' = result
               /\ pc' = "psi_postprocess"
               /\ caption' = outcome
               /\ audit' = [audit EXCEPT
                              ![Len(audit)].generate_calls = @ + 1,
                              ![Len(audit)].generated = TRUE]
    /\ UNCHANGED <<entry, job_input, i, captions, single_input, params, input_path,
                   prompt, response, job_files, cuda, ppvars>>

\* lines 278-298: one call of model.generate, which returns a caption or raises;
\* on a GPU a failure may leave the device in a sticky error state
PSI_Generate ==
    /\ pc = "psi_generate"
    /\ gen_args' = generate_args
    /\ \E outcome \in {"raise"} \cup ModelCaptions, sticky \in BOOLEAN :
          IF outcome = "raise"
          THEN /\ result' = Error("Caption generation failed: CUDA out of memory")
               /\ pc' = "psi_finally"
               /\ caption' = caption
               /\ cuda' = [cuda EXCEPT !.faulted = cuda.available /\ sticky]
               /\ audit' = [audit EXCEPT
                              ![Len(audit)].generate_calls = @ + 1,
                              ![Len(audit)].generate_failed = TRUE]
          ELSE /\ result' = result
               /\ pc' = "psi_postprocess"
               /\ caption' = outcome
               /\ cuda' = cuda
               /\ audit' = [audit EXCEPT
                              ![Len(audit)].generate_calls = @ + 1,
                              ![Len(audit)].generated = TRUE]
    /\ UNCHANGED <<entry, job_input, i, captions, single_input, params, input_path,
                   prompt, response, job_files, ppvars>>

\* the dict returned at 313-327 (processing_time, a wall-clock reading, left out)
success(processed_caption) ==
    [caption |-> processed_caption,
     raw_caption |-> caption,
     personalization_info |->
        [tags_used |-> params["tags"].v,
         enhanced_prompt |-> prompt,
         post_processed |-> processed_caption # caption],
     model_info |-> [max_length |-> gen_args.max_length, num_beams |-> gen_args.num_beams]]

\* lines 300-332: personalize the caption and build the result; an exception
\* raised here is caught at 329 like one raised by the model
PSI_PostProcess ==
    /\ pc = "psi_postprocess"
    /\ LET processed == post_process_caption_with_tags(caption, params["tags"].v)
       IN  IF processed.raised
           THEN /\ result' = Error("Caption generation failed: " \o processed.value)
                /\ audit' = Noted("pp_raised", TRUE)
           ELSE IF cuda.available /\ cuda.faulted
           THEN /\ result' = Error("Caption generation failed: CUDA error")
                /\ audit' = audit
           ELSE /\ result' = success(processed.value)
                /\ audit' = audit
    /\ pc' = "psi_finally"
    /\ UNCHANGED <<entry, job_input, i, captions, single_input, params, input_path,
                   prompt, gen_args, caption, response, job_files, cuda, ppvars>>

\* what rp_cleanup.clean leaves of the temporary files
clean(files) == {}

\* lines 339-348: empty_cache, gc.collect and rp_cleanup.clean share one try
\* block: when empty_cache raises on a faulted device, clean is not reached and
\* the exception is swallowed.  Then control returns to the caller.
PSI_Finally ==
    /\ pc = "psi_finally"
    /\ job_files' = IF cuda.available /\ cuda.faulted THEN job_files ELSE clean(job_files)
    /\ audit' = [audit EXCEPT ![Len(audit)].returned = TRUE,
                              ![Len(audit)].result = result]
    /\ IF entry = "process_single_image"
       THEN /\ response' = result
            /\ pc' = "done"
       ELSE /\ response' = response
            /\ pc' = IF Has(job_input, "data_urls") THEN "legacy_collect" ELSE "legacy_single"
    /\ UNCHANGED <<entry, job_input, i, captions, single_input, params, input_path,
                   prompt, gen_args, caption, result, cuda, ppvars>>

(***************************************************************************)
(* caption_image_legacy  (handler.py 350-420)                              *)
(***************************************************************************)
\* lines 373-386: the single-image job built for data_urls[k], k counted from 0
single_job(input, k) ==
    LET batch_tags == DictGet(input, "tags", PyList(<<>>)).v
    IN  [data_url |-> input["data_urls"].v[k + 1],
         prompt |-> DictGet(input, "prompt", PyStr("detailed photo showing")),
         tags |-> IF k < Len(batch_tags) THEN batch_tags[k + 1] ELSE PyList(<<>>),
         max_length |-> DictGet(input, "max_length", PyInt(80)),
         min_length |-> DictGet(input, "min_length", PyInt(15)),
         num_beams |-> DictGet(input, "num_beams", PyInt(5))]

\* lines 356-369 and 404-406: choose the batch branch or the single-image branch
Legacy_Start ==
    /\ pc = "legacy_start"
    /\ IF Has(job_input, "data_urls")
       THEN IF Len(job_input["data_urls"].v) = 0
            THEN /\ response' = Error("Empty data_urls array")
                 /\ pc' = "done"
                 /\ UNCHANGED <<single_input, audit>>
            ELSE /\ response' = response
                 /\ pc' = "legacy_loop"
                 /\ UNCHANGED <<single_input, audit>>
       ELSE /\ response' = response
            /\ single_input' = job_input
            /\ audit' = Append(audit, NewCall(job_input))
            /\ pc' = "psi_validate"
    /\ UNCHANGED <<entry, job_input, i, captions, params, input_path, prompt,
                   gen_args, caption, result, job_files, cuda, ppvars>>

\* lines 370-388 and 402: the next url is handed to process_single_image, or the
\* loop is over and the list is returned
Legacy_Iterate ==
    /\ pc = "legacy_loop"
    /\ IF i < Len(job_input["data_urls"].v)
       THEN /\ single_input' = single_job(job_input, i)
            /\ audit' = Append(audit, NewCall(single_job(job_input, i)))
            /\ pc' = "psi_validate"
            /\ response' = response
       ELSE /\ response' = [captions |-> captions]
            /\ pc' = "done"
            /\ UNCHANGED <<single_input, audit>>
    /\ params' = EmptyDict
    /\ input_path' = ""
    /\ prompt' = ""
    /\ gen_args' = None
    /\ caption' = ""
    /\ result' = None
    /\ UNCHANGED <<entry, job_input, i, captions, job_files, cuda, ppvars>>

\* f"image_{k+1}"
image_path(k) == "image_" \o ToString(k + 1)

\* lines 390-400: the entry appended for data_urls[k]
legacy_entry(k, res) ==
    IF Has(res, "error")
    THEN [image_path |-> image_path(k), caption |-> "[ERROR: " \o res.error \o "]"]
    ELSE [image_path |-> image_path(k), caption |-> res.caption,
          personalization_info |-> res.personalization_info]

\* Legacy_Collect returning the first error instead of appending it
Legacy_Collect_abort ==
    /\ pc = "legacy_collect"
    /\ IF Has(result, "error")
       THEN /\ response' = result
            /\ pc' = "done"
            /\ UNCHANGED <<captions, i>>
       ELSE /\ captions' = Append(captions, legacy_entry(i, result))
            /\ i' = i + 1
            /\ pc' = "legacy_loop"
            /\ response' = response
    /\ UNCHANGED <<entry, job_input, single_input, params, input_path, prompt,
                   gen_args, caption, result, job_files, cuda, audit, ppvars>>

\* lines 388-400: the result of the call is appended, failed or not
Legacy_Collect ==
    /\ pc = "legacy_collect"
    /\ captions' = Append(captions, legacy_entry(i, result))
    /\ i' = i + 1
    /\ pc' = "legacy_loop"
    /\ UNCHANGED <<entry, job_input, single_input, params, input_path, prompt,
                   gen_args, caption, result, response, job_files, cuda, audit, ppvars>>

\* lines 406-417: the single-image branch returns the error, or the caption
\* wrapped in the legacy format
Legacy_Single ==
    /\ pc = "legacy_single"
    /\ response' =
          IF Has(result, "error") THEN result
          ELSE [captions |-> <<[image_path |-> "single_image",
                                caption |-> result.caption,
                                personalization_info |-> result.personalization_info]>>]
    /\ pc' = "done"
    /\ UNCHANGED <<entry, job_input, i, captions, single_input, params, input_path,
                   prompt, gen_args, caption, result, job_files, cuda, audit, ppvars>>

Next ==
    \/ \E h \in Handlers, input \in JobInputs : Receive(h, input)
    \/ Return
    \/ PSI_Validate
    \/ PSI_Download
    \/ PSI_Mime
    \/ PSI_Preprocess
    \/ PSI_Generate
    \/ PSI_PostProcess
    \/ PSI_Finally
    \/ Legacy_Start
    \/ Legacy_Iterate
    \/ Legacy_Collect
    \/ Legacy_Single

Spec == Init /\ [][Next]_vars

(***************************************************************************)
(* The post-processor on its own: the caption and the tags are drawn from  *)
(* bounded sets and post_process_caption_with_tags is applied to them.     *)
(***************************************************************************)
Words == {"a man", "A girl", "they", "a person", "Hanna", "hanna", "Puck", "cute"}

RECURSIVE Sentences(_)
\* the captions of exactly n words
Sentences(n) ==
    IF n = 0 THEN {""}
    ELSE IF n = 1 THEN Words
    ELSE {w \o " " \o rest : w \in Words, rest \in Sentences(n - 1)}

Captions == UNION {Sentences(n) : n \in 0..MaxWords}

TagLists ==
    {<<>>,
     <<HannaTag>>,
     <<PapaTag>>,
     <<HannaTag, PapaTag>>,
     <<PyDict([role |-> "son"])>>,
     <<NameOnlyTag, NamelessFatherTag>>,
     <<PyDict([name |-> "", role |-> "father"]), HannaTag>>,
     <<HannaTag, GrandpaTag>>,
     <<FriendTag, PapaTag>>,
     <<PyList(<<HannaTag>>)>>}

InitPP ==
    /\ PipelineIdle
    /\ cuda = [available |-> FALSE, faulted |-> FALSE]
    /\ pp_pc = "ready"
    /\ pp_caption \in Captions
    /\ pp_tags \in TagLists
    /\ pp_out = None
    /\ pp_again = None

PP_Call ==
    /\ pp_pc = "ready"
    /\ pp_out' = post_process_caption_with_tags(pp_caption, pp_tags)
    /\ pp_pc' = "called"
    /\ UNCHANGED <<pp_caption, pp_tags, pp_again, pvars>>

PP_CallAgain ==
    /\ pp_pc = "called"
    /\ ~pp_out.raised
    /\ pp_again' = post_process_caption_with_tags(pp_out.value, pp_tags)
    /\ pp_pc' = "called again"
    /\ UNCHANGED <<pp_caption, pp_tags, pp_out, pvars>>

NextPP == PP_Call \/ PP_CallAgain

SpecPP == InitPP /\ [][NextPP]_vars

(***************************************************************************)
(* The generation parameters on their own: one job for the registered      *)
(* handler, its numeric entries, its prompt and an extra key drawn from    *)
(* bounded sets, taken through process_single_image.                       *)
(***************************************************************************)
\* the integers a job may carry for max_length, min_length and num_beams
ParamValues == {0, 10, 120}

\* the entry for key: absent, or one of the integers
IntOptions(key) == {EmptyDict} \cup {key :> PyInt(n) : n \in ParamValues}

\* an entry INPUT_SCHEMA does not list: none, a key no handler reads, or the
\* batch_size of the batch envelope
ExtraOptions == {EmptyDict, [seed |-> PyInt(7)], [batch_size |-> PyInt(4)]}

ParamJobs ==
    {[data_url |-> PyStr(DataUrl)] @@ a @@ b @@ c @@ p @@ x :
        a \in IntOptions("max_length"), b \in IntOptions("min_length"),
        c \in IntOptions("num_beams"),
        p \in {EmptyDict, [prompt |-> PyStr("describe")]},
        x \in ExtraOptions}

NextParams ==
    \/ \E input \in ParamJobs : Receive("process_single_image", input)
    \/ PSI_Validate
    \/ PSI_Download
    \/ PSI_Mime
    \/ PSI_Preprocess
    \/ PSI_Generate
    \/ PSI_PostProcess
    \/ PSI_Finally

SpecParams == Init /\ [][NextParams]_vars

(***************************************************************************)
(* Properties.                                                             *)
(***************************************************************************)

\* the job in hand names no source
NoSource == ~Has(job_input, "data_url") /\ ~Has(job_input, "data_urls")

\* the positions inside process_single_image from the download on
PastValidation ==
    pc \in {"psi_download", "psi_mime", "psi_preprocess", "psi_generate", "psi_postprocess"}

\* C1: a job whose input has neither data_url nor data_urls gets a response of
\* the form {"error": text}; no download and no model.generate call is made
\* for it and no stage after validation is reached.
C1_NoSourceIsError ==
    (pc # "idle" /\ NoSource) =>
        /\ ~PastValidation
        /\ \A k \in 1..Len(audit) :
              audit[k].download_calls = 0 /\ audit[k].generate_calls = 0
        /\ (pc = "done" => DOMAIN response = {"error"})

\* a job with tags and no source has been answered by caption_image_legacy
C1_Witness ==
    /\ pc = "done"
    /\ entry = "caption_image_legacy"
    /\ NoSource
    /\ Has(job_input, "tags")
    /\ DOMAIN response = {"error"}
    /\ Len(audit) = 1

\* caption_image_legacy is handling a non-empty data_urls list
BatchJob ==
    /\ entry = "caption_image_legacy"
    /\ Has(job_input, "data_urls")
    /\ Len(job_input["data_urls"].v) > 0

\* C2: for a non-empty data_urls list the failure of one source never aborts
\* its siblings: every url is handed to process_single_image, in order, and
\* the captions list has exactly one entry per url in input order, a failed
\* one carrying the error text of that image only.
C2_FailureKeepsSiblings ==
    (pc = "done" /\ BatchJob) =>
        LET urls == job_input["data_urls"].v
        IN  /\ DOMAIN response = {"captions"}
            /\ Len(response.captions) = Len(urls)
            /\ Len(audit) = Len(urls)
            /\ \A k \in 1..Len(urls) :
                  /\ audit[k].data_url = urls[k]
                  /\ audit[k].returned
                  /\ response.captions[k].image_path = image_path(k - 1)
                  /\ IF Has(audit[k].result, "error")
                     THEN response.captions[k] =
                             [image_path |-> image_path(k - 1),
                              caption |-> "[ERROR: " \o audit[k].result.error \o "]"]
                     ELSE response.captions[k].caption = audit[k].result.caption

\* a list of two urls whose first image failed and whose second was captioned
C2_Witness ==
    /\ pc = "done"
    /\ BatchJob
    /\ Len(job_input["data_urls"].v) = 2
    /\ Has(audit[1].result, "error")
    /\ ~Has(audit[2].result, "error")
    /\ Len(response.captions) = 2

\* the downloaded file of call k is not a supported raster image
Unsupported(k) ==
    audit[k].path # "" /\ guess_type(audit[k].path) \notin SupportedMimeTypes

promoted(input) ==
    [k \in (DOMAIN input \ {"data_url"}) \cup {"data_urls"} |->
        IF k = "data_urls" THEN PyList(<<input["data_url"]>>) ELSE input[k]]

\* C4: a job with only data_url is handled like the same job with
\* data_urls = [data_url]: when the job has passed validation, the one-element
\* list form gives process_single_image the same source and validation
\* yields the same prompt, tags and generation parameters for it.
C4_DataUrlLikeOneElementList ==
    (/\ entry = "caption_image_legacy"
     /\ Has(job_input, "data_url")
     /\ ~Has(job_input, "data_urls")
     /\ pc = "psi_download") =>
        validate(single_job(promoted(job_input), 0), INPUT_SCHEMA)
           = [validated_input |-> params]

\* C5: the temporary files of a job are removed before process_single_image
\* returns, whichever way it returns, hence before the handler returns and
\* before the next job is accepted.
C5_TempFilesRemoved ==
    (pc \in {"idle", "done", "legacy_start", "legacy_loop", "legacy_collect",
             "legacy_single"}) =>
        job_files = {}

C7_EmptyTagsIdentity ==
    (pp_tags = <<>>) =>
        /\ (pp_pc # "ready" => pp_out = Ret(pp_caption))
        /\ (pp_pc = "called again" => pp_again = Ret(pp_caption))

\* a caption holding a generic term has gone through the post-processor with
\* no tags
C7_Witness ==
    /\ pp_pc = "called"
    /\ pp_tags = <<>>
    /\ Contains(pp_caption, "a man")
    /\ pp_out = Ret(pp_caption)

\* out is mid, or mid with one "little " inserted
LittleOnce(mid, out) ==
    \/ out = mid
    \/ \E j \in Occurrences(out, "little ") :
          mid = Prefix(out, j) \o Suffix(out, j + Len("little "))

\* mid is c, or c with one occurrence of one generic term (matched without
\* regard to case) replaced by some text, the text around it kept
SubstitutedOnce(c, mid) ==
    \/ mid = c
    \/ \E term \in GenericTerms :
          \E idx \in Occurrences(Lower(c), term) :
             /\ Len(mid) >= idx + Len(Suffix(c, idx + Len(term)))
             /\ Prefix(mid, idx) = Prefix(c, idx)
             /\ Suffix(mid, Len(mid) - Len(Suffix(c, idx + Len(term))))
                   = Suffix(c, idx + Len(term))

\* the captions from which out arises by at most one "little " insertion
BeforeLittle(out) ==
    {out} \cup {Prefix(out, j) \o Suffix(out, j + Len("little ")) :
                   j \in Occurrences(out, "little ")}

C9_PersonalizationNeverFails ==
    \A k \in 1..Len(audit) :
        (audit[k].pp_raised /\ audit[k].returned) =>
            /\ ~Has(audit[k].result, "error")
            /\ audit[k].result.caption = audit[k].result.raw_caption

\* C10: a job whose data_url is present and does not start with "data:image/"
\* is rejected by validation: nothing is downloaded, the model is not invoked
\* and the response is an error.
C10_NonDataUrlRejected ==
    (/\ pc # "idle"
     /\ Has(job_input, "data_url")
     /\ ~Has(job_input, "data_urls")
     /\ ~StartsWith(job_input["data_url"].v, "data:image/")) =>
        /\ ~PastValidation
        /\ \A k \in 1..Len(audit) :
              audit[k].download_calls = 0 /\ audit[k].generate_calls = 0
        /\ (pc = "done" => DOMAIN response = {"error"})

\* the defaults the interface documents for the optional keys
DocumentedDefaults ==
    [prompt |-> PyStr("a photo of"), min_length |-> PyInt(5),
     max_length |-> PyInt(75), num_beams |-> PyInt(3), batch_size |-> PyInt(4)]

\* process_single_image has decided on the validity of its input
Validated ==
    pc \in {"psi_download", "psi_mime", "psi_preprocess", "psi_generate",
            "psi_postprocess", "psi_finally"}

\* C11: for every job input whose data_url is well-formed, unknown keys are
\* ignored and the parameters in force after validation hold, for each of
\* prompt, min_length, max_length, num_beams and batch_size, the supplied
\* value when the key is present and the documented default (a photo of, 5,
\* 75, 3, 4) when it is missing.
C11_UnknownIgnoredDefaultsApplied ==
    (/\ Validated
     /\ Has(single_input, "data_url")
     /\ single_input["data_url"].kind = "str"
     /\ valid_data_url(single_input["data_url"].v)
     /\ \A k \in DOMAIN single_input \cap DOMAIN INPUT_SCHEMA :
           single_input[k].kind = INPUT_SCHEMA[k].type) =>
        \A k \in DOMAIN DocumentedDefaults :
            /\ Has(params, k)
            /\ params[k] = DictGet(single_input, k, DocumentedDefaults[k])

\* C12: at every model.generate invocation the parameters passed to the model
\* satisfy min_length <= max_length and num_beams >= 1.
C12_GenerateArgsConsistent ==
    (gen_args # None) =>
        /\ gen_args.min_length <= gen_args.max_length
        /\ gen_args.num_beams >= 1

\* the keys of `replacements`, in insertion order
GenericOrder ==
    <<"a person", "a man", "a woman", "a boy", "a girl", "a child", "someone", "they">>

RoleTerms == {"a man", "a woman", "a boy", "a girl"}

\* the role keywords of a generic term
KeywordsOf(term) ==
    CASE term = "a man" -> {"father", "dad", "papa", "man"}
      [] term = "a woman" -> {"mother", "mom", "mama", "woman"}
      [] term = "a boy" -> {"son", "boy", "child"}
      [] term = "a girl" -> {"daughter", "girl", "child"}

\* the generic term one call substitutes in caption c: the first term, in the
\* order of the keys, that occurs in the lower-cased caption; "" when none does
SubstitutedTerm(c) ==
    LET found == SelectSeq(GenericOrder, LAMBDA t : Contains(Lower(c), t))
    IN  IF found = <<>> THEN "" ELSE found[1]

\* the smallest member of a non-empty set of positions
First(S) == CHOOSE a \in S : \A b \in S : a <= b

\* the post-processor has been given a caption in which no tag name occurs and
\* in which the term to substitute is one of the four role terms
RoleTermCase ==
    /\ pp_pc # "ready"
    /\ pp_caption # ""
    /\ pp_tags # <<>>
    /\ \A k \in 1..Len(pp_tags) : pp_tags[k].kind = "dict"
    /\ NamesOf(pp_tags) # <<>>
    /\ \A k \in 1..Len(NamesOf(pp_tags)) :
          ~Contains(Lower(pp_caption), Lower(NamesOf(pp_tags)[k]))
    /\ SubstitutedTerm(pp_caption) \in RoleTerms

\* the output is the caption with the first occurrence of its substituted term
\* replaced by name, a "little " prefix apart
InsertedIs(name) ==
    LET term == SubstitutedTerm(pp_caption)
        idx == Find(Lower(pp_caption), term)
    IN  /\ ~pp_out.raised
        /\ \E mid \in BeforeLittle(pp_out.value) :
              mid = Prefix(pp_caption, idx) \o name \o Suffix(pp_caption, idx + Len(term))

\* C13 as stated: when no tag name occurs in the caption and the term
\* substituted is "a man", "a woman", "a boy" or "a girl", the inserted name
\* is that of the first tag whose role contains one of the term's role
\* keywords, and the first tag's name when no tag's role does (tags that all
\* carry a name).
C13_RoleContainsKeyword ==
    (/\ RoleTermCase
     /\ \A k \in 1..Len(pp_tags) : Get(pp_tags[k], "name", "") # "") =>
        LET holders ==
                {k \in 1..Len(pp_tags) :
                    /\ "role" \in DOMAIN pp_tags[k].v
                    /\ \E r \in KeywordsOf(SubstitutedTerm(pp_caption)) :
                          Contains(pp_tags[k].v["role"], r)}
        IN  InsertedIs(IF holders = {} THEN pp_tags[1].v["name"]
                       ELSE pp_tags[First(holders)].v["name"])

\* C13, amended: the role test is equality, not containment.  The inserted
\* text is the 'name' entry of the first tag whose role equals one of the
\* term's keywords, and the first non-empty name in tag order when no tag's
\* role equals one; a role that merely contains a keyword (grandfather) does
\* not match.  When, for any of the four terms, the first tag of equal role
\* has no 'name' key, the call raises KeyError('name') instead.
C13_RoleEqualsKeyword ==
    RoleTermCase =>
        LET equal(term) ==
                {k \in 1..Len(pp_tags) :
                    /\ "role" \in DOMAIN pp_tags[k].v
                    /\ pp_tags[k].v["role"] \in KeywordsOf(term)}
            nameless(term) ==
                equal(term) # {} /\ "name" \notin DOMAIN pp_tags[First(equal(term))].v
            mine == equal(SubstitutedTerm(pp_caption))
        IN  IF \E term \in RoleTerms : nameless(term)
            THEN pp_out = Raise(KeyErrorName)
            ELSE InsertedIs(IF mine = {} THEN NamesOf(pp_tags)[1]
                            ELSE pp_tags[First(mine)].v["name"])

\* "a man" with a daughter and a grandfather tagged: the grandfather's role
\* only contains a keyword, and the first name was inserted
C13_Witness ==
    /\ pp_pc = "called"
    /\ pp_caption = "a man"
    /\ pp_tags = <<HannaTag, GrandpaTag>>
    /\ pp_out = Ret("little Hanna")

\* C14: post_process_caption_with_tags is idempotent for a fixed tags list:
\* applying it to its own output changes nothing, no further substitution and
\* no second "little " prefix.
C14_Idempotent ==
    (pp_pc = "called again") => pp_again = pp_out

=============================================================================
